---- MODULE Spec2Model ----
(***************************************************************************)
(* NoFlo BasePort (src/lib/BasePort.js): the socket list of a port, its    *)
(* attach/detach operations, its queries and the events it emits.          *)
(*                                                                         *)
(* JavaScript arrays are 0-based and sparse; the model keeps `sockets` as  *)
(* a TLA+ sequence whose element k+1 is the array's element k, with Hole   *)
(* for an index below `length` that was never assigned and Undefined for   *)
(* one that holds the value `undefined`.                                   *)
(***************************************************************************)
EXTENDS Integers, Sequences, FiniteSets, TLC

\* ------------------------------------------------------------------ bounds
NumSockets == 2      \* socket objects the environment owns
MaxIndex   == 2      \* largest explicit index / socketId argument tried
MaxAttach  == 3      \* attach calls made on one port
QueryMaxAttach == 2  \* attach calls made where queries are interleaved
NumListeners == 3    \* listener functions the environment registers
StepMaxAttach == 2   \* attach calls made where attach/detach run stepwise
MaxSchemaLen == 2    \* longest schema / type string given to the constructor

\* ------------------------------------------------------------ value domain
Sockets   == 1..NumSockets        \* socket objects (compared by identity)
Undefined == 0                    \* the JavaScript value `undefined`
Hole      == -1                   \* an array index that was never assigned
Null      == -2                   \* the default `null` of index / socketId

IndexArgs == {Null} \cup (0..MaxIndex)
Listeners == 1..NumListeners
EventNames == {"attach", "detach"}

\* An option, a field or a result is undefined, null or a value.  A string the
\* code only compares is a TLA+ string; a string the code searches (schema,
\* type) is the sequence of its characters.
None     == [is |-> "undefined"]
NullRef  == [is |-> "null"]
Some(v)  == [is |-> "value", value |-> v]

\* JavaScript truthiness of a flag, of a compared string, of a searched string
TruthyFlag(o)   == o.is = "value" /\ o.value = TRUE
TruthyName(o)   == o.is = "value" /\ o.value # ""
TruthyString(o) == o.is = "value" /\ o.value # <<>>

VARIABLES
  options,       \* this.options; the constructor's argument before it ran
  node,          \* this.node
  name,          \* this.name
  sockets,       \* this.sockets
  connected,     \* the sockets whose own isConnected() answers true
  call,          \* the last operation called on the port, with its arguments
  ret,           \* what that call returned or threw
  emitted,       \* the events that call emitted, in order
  nAttach,       \* attach calls made so far
  nDetach,       \* detach calls so far that found their socket
  highest,       \* the highest index an attach has stored at, -1 if none has
  overwritten,   \* sockets an attach replaced in the only slot they held
  pc,            \* position inside attach/detach (stepwise specification)
  cur,           \* the socket and index the running attach/detach works on
  listeners,     \* EventEmitter listeners per event, in registration order
  queue,         \* listeners the running emit has still to invoke
  seen           \* what each invoked listener observed, in invocation order

vars == <<options, node, name, sockets, connected, call, ret, emitted,
          nAttach, nDetach, highest, overwritten, pc, cur, listeners, queue,
          seen>>

stepVars == <<pc, cur, listeners, queue, seen>>

Max(a, b) == IF a >= b THEN a ELSE b

\* -------------------------------------------------------- array primitives
\* this.sockets.length
Length(socks) == Len(socks)

\* this.sockets[i]: a hole or an index past the end reads as undefined
At(socks, i) ==
  IF i >= 0 /\ i < Len(socks) /\ socks[i + 1] # Hole THEN socks[i + 1]
  ELSE Undefined

\* JavaScript truthiness of a slot value: a socket object is truthy
Truthy(v) == v \in Sockets

\* an assignment that inserts at i, as this.sockets.splice(i, 0, v) would
SetAtInsert(socks, i, v) ==
  IF i >= Len(socks)
  THEN [k \in 1..(i + 1) |->
          IF k = i + 1 THEN v ELSE IF k <= Len(socks) THEN socks[k] ELSE Hole]
  ELSE SubSeq(socks, 1, i) \o <<v>> \o SubSeq(socks, i + 1, Len(socks))

\* this.sockets[i] = v: grows the array, leaving holes, when i >= length
SetAt(socks, i, v) ==
  [k \in 1..(IF i + 1 > Len(socks) THEN i + 1 ELSE Len(socks)) |->
     IF k = i + 1 THEN v
     ELSE IF k <= Len(socks) THEN socks[k]
     ELSE Hole]

\* a lookup from the end, as this.sockets.lastIndexOf(v) would do
IndexOfLast(socks, v) ==
  IF \E k \in 1..Len(socks) : socks[k] = v
  THEN (CHOOSE k \in 1..Len(socks) :
          /\ socks[k] = v
          /\ \A j \in (k + 1)..Len(socks) : socks[j] # v) - 1
  ELSE -1

\* this.sockets.indexOf(v): first index holding v (holes are skipped), or -1
IndexOf(socks, v) ==
  IF \E k \in 1..Len(socks) : socks[k] = v
  THEN (CHOOSE k \in 1..Len(socks) :
          /\ socks[k] = v
          /\ \A j \in 1..(k - 1) : socks[j] # v) - 1
  ELSE -1

\* ----------------------------------------------------------------- queries
\* isAddressable()
IsAddressable == TruthyFlag(options.addressable)

\* an isAttached that counts the occupied slots instead of the length
IsAttachedOccupied(socks, socketId) ==
  IF IsAddressable /\ socketId # Null
  THEN Truthy(At(socks, socketId))
  ELSE \E k \in 1..Len(socks) : Truthy(socks[k])

\* isAttached(socketId)
IsAttached(socks, socketId) ==
  IF IsAddressable /\ socketId # Null
  THEN Truthy(At(socks, socketId))
  ELSE Length(socks) # 0

RECURSIVE ListFrom(_, _)
ListFrom(socks, idx) ==
  IF idx >= Length(socks) THEN <<>>
  ELSE (IF Truthy(At(socks, idx)) THEN <<idx>> ELSE <<>>)
         \o ListFrom(socks, idx + 1)

\* a listAttached without the `if (socket)` test
ListAttachedAll(socks) == [k \in 1..Len(socks) |-> k - 1]

\* listAttached()
ListAttached(socks) == ListFrom(socks, 0)

Returned(v)  == [kind |-> "return", value |-> v]
ReturnedVoid == [kind |-> "void"]
Thrown(e)    == [kind |-> "throw", error |-> e]
Running      == [kind |-> "running"]

\* an isConnected without the `socketId === null` check: sockets[null] reads
\* as undefined
IsConnectedNoIdCheck(socks, socketId, conn) ==
  IF IsAddressable
  THEN IF ~Truthy(At(socks, socketId)) THEN Thrown("Socket not available")
       ELSE Returned(At(socks, socketId) \in conn)
  ELSE Returned(\E k \in 1..Len(socks) :
                  Truthy(socks[k]) /\ socks[k] \in conn)

\* an isConnected whose loop assigns `connected = socket.isConnected()`, so
\* that the last occupied slot decides
IsConnectedLastWins(socks, socketId, conn) ==
  IF IsAddressable
  THEN IF socketId = Null THEN Thrown("Socket ID required")
       ELSE IF ~Truthy(At(socks, socketId)) THEN Thrown("Socket not available")
       ELSE Returned(At(socks, socketId) \in conn)
  ELSE Returned(\E k \in 1..Len(socks) :
                  /\ Truthy(socks[k]) /\ socks[k] \in conn
                  /\ \A j \in (k + 1)..Len(socks) : ~Truthy(socks[j]))

\* isConnected(socketId): its outcome, given which sockets report connected
IsConnected(socks, socketId, conn) ==
  IF IsAddressable
  THEN IF socketId = Null THEN Thrown("Socket ID required")
       ELSE IF ~Truthy(At(socks, socketId)) THEN Thrown("Socket not available")
       ELSE Returned(At(socks, socketId) \in conn)
  ELSE Returned(\E k \in 1..Len(socks) :
                  Truthy(socks[k]) /\ socks[k] \in conn)

\* ----------------------------------------------------------- attach/detach
\* an attach that honours the index argument on every port
AttachIndexAnyPort(socks, index) ==
  IF index = Null THEN Length(socks) ELSE index

\* an attach that tests `!index`, taking index 0 for a missing index
AttachIndexFalsy(socks, index) ==
  IF ~IsAddressable \/ index = Null \/ index = 0 THEN Length(socks) ELSE index

\* the index attach() writes
AttachIndex(socks, index) ==
  IF ~IsAddressable \/ index = Null THEN Length(socks) ELSE index

\* a detach that removes the entry, as this.sockets.splice(index, 1) would
DetachSlotSplice(socks, index) ==
  SubSeq(socks, 1, index) \o SubSeq(socks, index + 2, Len(socks))

\* detach(): this.sockets[index] = undefined
DetachSlot(socks, index) == SetAt(socks, index, Undefined)

\* an emit that never passes the index
EventOfSocketOnly(event, socket, idx) ==
  [name |-> event, args |-> <<socket>>]

\* the arguments emit() is given by attach() and detach()
EventOf(event, socket, idx) ==
  IF IsAddressable
  THEN [name |-> event, args |-> <<socket, idx>>]
  ELSE [name |-> event, args |-> <<socket>>]

\* the sockets attach(socket, idx) leaves overwritten: the socket that was
\* held at idx and nowhere else joins, the socket attached leaves
Overwritten(socks, idx, socket) ==
  (overwritten \ {socket}) \cup
    {a \in Sockets \ {socket} :
       /\ At(socks, idx) = a
       /\ \A k \in 1..Len(socks) : socks[k] = a => k = idx + 1}

\* --------------------------------------------------------------- construction
\* The list of valid datatypes for ports
validTypes ==
  <<"all", "string", "number", "int", "object", "array", "boolean", "color",
    "date", "bang", "function", "buffer", "stream">>

\* datatype strings given to the constructor
DatatypeArgs ==
  {validTypes[k] : k \in 1..Len(validTypes)} \cup {"integer", "", "float", "Int"}

\* schema and type strings given to the constructor
Chars == {"a", "/"}
SchemaArgs == UNION {[1..n -> Chars] : n \in 0..MaxSchemaLen}

Flags == {None, Some(TRUE), Some(FALSE)}

\* the options objects given to the constructor
OptionInputs ==
  [datatype    : {None} \cup {Some(d) : d \in DatatypeArgs},
   schema      : {None} \cup {Some(s) : s \in SchemaArgs},
   type        : {None} \cup {Some(s) : s \in SchemaArgs},
   addressable : {None, Some(TRUE)},
   buffered    : {None, Some(TRUE)},
   required    : Flags]

\* options = {}
NoOptions ==
  [datatype |-> None, schema |-> None, type |-> None, addressable |-> None,
   buffered |-> None, required |-> None]

\* a handleOptions that validates the datatype as given, before defaulting it
HandleOptionsRaw(o) ==
  LET datatype == IF o.datatype = Some("integer") THEN Some("int")
                  ELSE o.datatype
      required == IF TruthyFlag(o.required) THEN o.required ELSE Some(FALSE)
      schema   == IF TruthyString(o.schema) THEN o.schema ELSE o.type
  IN  IF datatype.is # "value" \/ IndexOf(validTypes, datatype.value) = -1
      THEN Thrown("Invalid port datatype")
      ELSE IF TruthyString(schema) /\ IndexOf(schema.value, "/") = -1
      THEN Thrown("Invalid port schema")
      ELSE Returned([o EXCEPT !.datatype = datatype,
                              !.required = required,
                              !.schema = schema])

\* a handleOptions that never looks at options.type
HandleOptionsNoType(o) ==
  LET given    == IF TruthyName(o.datatype) THEN o.datatype ELSE Some("all")
      datatype == IF given = Some("integer") THEN Some("int") ELSE given
      required == IF TruthyFlag(o.required) THEN o.required ELSE Some(FALSE)
      schema   == o.schema
  IN  IF IndexOf(validTypes, datatype.value) = -1
      THEN Thrown("Invalid port datatype")
      ELSE IF TruthyString(schema) /\ IndexOf(schema.value, "/") = -1
      THEN Thrown("Invalid port schema")
      ELSE Returned([o EXCEPT !.datatype = datatype,
                              !.required = required,
                              !.schema = schema])

\* handleOptions(options): the normalized options, or the error thrown
HandleOptions(o) ==
  LET given    == IF TruthyName(o.datatype) THEN o.datatype ELSE Some("all")
      datatype == IF given = Some("integer") THEN Some("int") ELSE given
      required == IF TruthyFlag(o.required) THEN o.required ELSE Some(FALSE)
      schema   == IF TruthyString(o.schema) THEN o.schema ELSE o.type
  IN  IF IndexOf(validTypes, datatype.value) = -1
      THEN Thrown("Invalid port datatype")
      ELSE IF TruthyString(schema) /\ IndexOf(schema.value, "/") = -1
      THEN Thrown("Invalid port schema")
      ELSE Returned([o EXCEPT !.datatype = datatype,
                              !.required = required,
                              !.schema = schema])

\* a sockets list that starts with one unassigned element, as new Array(1)
NewSocketsPrealloc == <<Hole>>

\* this.sockets = []
NewSockets == <<>>

\* getDataType()
GetDataType == options.datatype

\* getSchema()
GetSchema == IF TruthyString(options.schema) THEN options.schema ELSE NullRef

\* isBuffered()
IsBuffered == TruthyFlag(options.buffered)

\* isRequired()
IsRequired == TruthyFlag(options.required)

\* node and port names the graph gives
NodeNames == {"Read"}
PortNames == {"", "in"}

\* name.toUpperCase()
ToUpperCase(s) == CASE s = "in" -> "IN" [] OTHER -> s

\* getId(): the pieces of the string it returns
GetId(n, m) ==
  IF ~TruthyName(n) \/ ~TruthyName(m) THEN <<"Port">>
  ELSE <<n.value, " ", ToUpperCase(m.value)>>

\* the ports the wiring is exercised on: the default port, and an addressable
\* port with every other option given
WiredOptions ==
  {NoOptions,
   [datatype |-> Some("integer"), schema |-> None,
    type |-> Some(<<"a", "/">>), addressable |-> Some(TRUE),
    buffered |-> Some(TRUE), required |-> Some(TRUE)]}

Init ==
  /\ \E o \in WiredOptions :
       /\ options = HandleOptions(o).value
       /\ call = [op |-> "constructor", socket |-> Undefined, index |-> Null,
                  options |-> o]
  /\ node = NullRef
  /\ name = NullRef
  /\ sockets = NewSockets
  /\ connected = {}
  /\ ret = ReturnedVoid
  /\ emitted = <<>>
  /\ nAttach = 0
  /\ nDetach = 0
  /\ highest = -1
  /\ overwritten = {}
  /\ pc = "idle"
  /\ cur = [socket |-> Undefined, index |-> Null, registered |-> <<>>]
  /\ listeners = [e \in EventNames |-> <<>>]
  /\ queue = <<>>
  /\ seen = <<>>

\* an attach that detaches the socket it finds in the slot, with a detach
\* event, before it stores the new one
AttachEvicting(socket, index) ==
  /\ pc = "idle"
  /\ LET idx == AttachIndex(sockets, index) IN
       /\ sockets' = SetAt(sockets, idx, socket)
       /\ emitted' =
            (IF Truthy(At(sockets, idx))
             THEN <<EventOf("detach", At(sockets, idx), idx)>> ELSE <<>>)
            \o <<EventOf("attach", socket, idx)>>
       /\ highest' = Max(highest, idx)
       /\ overwritten' = Overwritten(sockets, idx, socket)
  /\ call' = [op |-> "attach", socket |-> socket, index |-> index]
  /\ ret' = ReturnedVoid
  /\ nAttach' = nAttach + 1
  /\ UNCHANGED <<options, node, name, connected, nDetach, stepVars>>

\* attach(socket, index = null)
Attach(socket, index) ==
  /\ pc = "idle"
  /\ LET idx == AttachIndex(sockets, index) IN
       /\ sockets' = SetAt(sockets, idx, socket)
       /\ emitted' = <<EventOf("attach", socket, idx)>>
       /\ highest' = Max(highest, idx)
       /\ overwritten' = Overwritten(sockets, idx, socket)
  /\ call' = [op |-> "attach", socket |-> socket, index |-> index]
  /\ ret' = ReturnedVoid
  /\ nAttach' = nAttach + 1
  /\ UNCHANGED <<options, node, name, connected, nDetach, stepVars>>

\* a detach without the `index === -1` early return: sockets[-1] = undefined
\* sets a property and leaves the array as it is, and the event is emitted
DetachUnguarded(socket) ==
  /\ pc = "idle"
  /\ LET index == IndexOf(sockets, socket) IN
       /\ sockets' = IF index = -1 THEN sockets ELSE DetachSlot(sockets, index)
       /\ emitted' = <<EventOf("detach", socket, index)>>
       /\ nDetach' = IF index = -1 THEN nDetach ELSE nDetach + 1
  /\ call' = [op |-> "detach", socket |-> socket, index |-> Null]
  /\ ret' = ReturnedVoid
  /\ UNCHANGED <<options, node, name, connected, nAttach, highest, overwritten, stepVars>>

\* detach(socket)
Detach(socket) ==
  /\ pc = "idle"
  /\ LET index == IndexOf(sockets, socket) IN
       IF index = -1
       THEN /\ emitted' = <<>>
            /\ UNCHANGED <<sockets, nDetach>>
       ELSE /\ sockets' = DetachSlot(sockets, index)
            /\ emitted' = <<EventOf("detach", socket, index)>>
            /\ nDetach' = nDetach + 1
  /\ call' = [op |-> "detach", socket |-> socket, index |-> Null]
  /\ ret' = ReturnedVoid
  /\ UNCHANGED <<options, node, name, connected, nAttach, highest, overwritten, stepVars>>

\* a query that drops the trailing empty slots before it answers
QueryTrims(op, socketId, result) ==
  /\ pc = "idle"
  /\ call' = [op |-> op, socket |-> Undefined, index |-> socketId]
  /\ ret' = result
  /\ emitted' = <<>>
  /\ LET occupied == {k \in 1..Len(sockets) : Truthy(sockets[k])} IN
       sockets' = SubSeq(sockets, 1,
                         IF occupied = {} THEN 0
                         ELSE CHOOSE k \in occupied : \A j \in occupied : j <= k)
  /\ UNCHANGED <<options, node, name, connected, nAttach, nDetach, highest, overwritten, stepVars>>

\* a query leaves the port alone and hands its result to the caller
Query(op, socketId, result) ==
  /\ pc = "idle"
  /\ call' = [op |-> op, socket |-> Undefined, index |-> socketId]
  /\ ret' = result
  /\ emitted' = <<>>
  /\ UNCHANGED <<options, node, name, sockets, connected, nAttach, nDetach, highest, overwritten, stepVars>>

IsAttachedCall(socketId) ==
  Query("isAttached", socketId, Returned(IsAttached(sockets, socketId)))

ListAttachedCall ==
  Query("listAttached", Null, Returned(ListAttached(sockets)))

IsConnectedCall(socketId) ==
  Query("isConnected", socketId, IsConnected(sockets, socketId, connected))

\* a socket connects or disconnects; the port is not told
SocketConnect(s) ==
  /\ pc = "idle"
  /\ s \notin connected
  /\ connected' = connected \cup {s}
  /\ UNCHANGED <<options, node, name, sockets, call, ret, emitted, nAttach, nDetach,
                 highest, overwritten, stepVars>>

SocketDisconnect(s) ==
  /\ pc = "idle"
  /\ s \in connected
  /\ connected' = connected \ {s}
  /\ UNCHANGED <<options, node, name, sockets, call, ret, emitted, nAttach, nDetach,
                 highest, overwritten, stepVars>>

GetIdCall == Query("getId", Null, Returned(GetId(node, name)))

\* canAttach() { return true; }
CanAttachCall == Query("canAttach", Null, Returned(TRUE))

\* the port's wiring changes: attach and detach calls
Next ==
  \/ \E s \in Sockets, i \in IndexArgs : nAttach < MaxAttach /\ Attach(s, i)
  \/ \E s \in Sockets : Detach(s)

Spec == Init /\ [][Next]_vars

\* the wiring changes with the queries and the sockets' own connection
\* changes interleaved
QueryNext ==
  \/ \E s \in Sockets, i \in IndexArgs :
       nAttach < QueryMaxAttach /\ Attach(s, i)
  \/ \E s \in Sockets : Detach(s)
  \/ \E i \in IndexArgs : IsAttachedCall(i)
  \/ ListAttachedCall
  \/ \E i \in IndexArgs : IsConnectedCall(i)
  \/ GetIdCall
  \/ CanAttachCall
  \/ \E s \in Sockets : SocketConnect(s)
  \/ \E s \in Sockets : SocketDisconnect(s)

QuerySpec == Init /\ [][QueryNext]_vars

\* ------------------------------------------------- attach/detach, stepwise
\* The same two methods, one statement at a time, with the listeners that
\* EventEmitter.emit() invokes inline. A listener queries the port when it
\* is invoked and records what it got.

\* an attach that emits first and stores the socket afterwards
AttachStoreLate(socket, index) ==
  /\ pc = "idle"
  /\ LET idx == AttachIndex(sockets, index) IN
       /\ cur' = [socket |-> socket, index |-> idx, registered |-> <<>>]
       /\ highest' = Max(highest, idx)
       /\ overwritten' = Overwritten(sockets, idx, socket)
  /\ call' = [op |-> "attach", socket |-> socket, index |-> index]
  /\ ret' = Running
  /\ emitted' = <<>>
  /\ seen' = <<>>
  /\ nAttach' = nAttach + 1
  /\ pc' = "attachSocket"
  /\ UNCHANGED <<options, node, name, sockets, connected, nDetach, listeners, queue>>

\* attach(), lines 85-89: compute the index and store the socket
AttachStore(socket, index) ==
  /\ pc = "idle"
  /\ LET idx == AttachIndex(sockets, index) IN
       /\ sockets' = SetAt(sockets, idx, socket)
       /\ cur' = [socket |-> socket, index |-> idx, registered |-> <<>>]
       /\ highest' = Max(highest, idx)
       /\ overwritten' = Overwritten(sockets, idx, socket)
  /\ call' = [op |-> "attach", socket |-> socket, index |-> index]
  /\ ret' = Running
  /\ emitted' = <<>>
  /\ seen' = <<>>
  /\ nAttach' = nAttach + 1
  /\ pc' = "attachSocket"
  /\ UNCHANGED <<options, node, name, connected, nDetach, listeners, queue>>

\* attach(), line 90: this.attachSocket(socket, idx), a no-op in BasePort
AttachSocket ==
  /\ pc = "attachSocket"
  /\ pc' = "emit"
  /\ UNCHANGED <<options, node, name, sockets, connected, call, ret, emitted, nAttach,
                 nDetach, highest, overwritten, cur, listeners, queue, seen>>

\* detach(), lines 102-106: look the socket up and clear its slot
DetachClear(socket) ==
  /\ pc = "idle"
  /\ call' = [op |-> "detach", socket |-> socket, index |-> Null]
  /\ emitted' = <<>>
  /\ seen' = <<>>
  /\ LET index == IndexOf(sockets, socket) IN
       IF index = -1
       THEN /\ ret' = ReturnedVoid
            /\ cur' = [socket |-> socket, index |-> Null, registered |-> <<>>]
            /\ UNCHANGED <<sockets, nDetach, pc>>
       ELSE /\ sockets' = DetachSlot(sockets, index)
            /\ cur' = [socket |-> socket, index |-> index, registered |-> <<>>]
            /\ ret' = Running
            /\ nDetach' = nDetach + 1
            /\ pc' = "emit"
  /\ UNCHANGED <<options, node, name, connected, nAttach, highest, overwritten, listeners, queue>>

\* this.emit(name, ...): emit() works on the listeners registered now
Emit ==
  /\ pc = "emit"
  /\ emitted' = <<EventOf(call.op, cur.socket, cur.index)>>
  /\ queue' = listeners[call.op]
  /\ cur' = [cur EXCEPT !.registered = listeners[call.op]]
  /\ pc' = "dispatch"
  /\ UNCHANGED <<options, node, name, sockets, connected, call, ret, nAttach, nDetach,
                 highest, overwritten, listeners, seen>>

\* what a listener gets from the port when it is invoked
Observation(l) ==
  [listener |-> l,
   args |-> emitted[1].args,
   slot |-> At(sockets, cur.index),
   list |-> ListAttached(sockets)]

\* emit() invokes the next listener, which queries the port
Dispatch ==
  /\ pc = "dispatch"
  /\ queue # <<>>
  /\ seen' = Append(seen, Observation(Head(queue)))
  /\ queue' = Tail(queue)
  /\ UNCHANGED <<options, node, name, sockets, connected, call, ret, emitted, nAttach,
                 nDetach, highest, overwritten, pc, cur, listeners>>

\* every listener has run: emit() and then attach()/detach() return
Return ==
  /\ pc = "dispatch"
  /\ queue = <<>>
  /\ ret' = ReturnedVoid
  /\ pc' = "idle"
  /\ UNCHANGED <<options, node, name, sockets, connected, call, emitted, nAttach,
                 nDetach, highest, overwritten, cur, listeners, queue, seen>>

\* an observer subscribes to the port's wiring changes: port.on('attach', l)
\* and port.on('detach', l), by the owner between calls or by a running
\* listener. Listener functions are numbered in the order they subscribe.
Subscribe(l) ==
  /\ pc \in {"idle", "dispatch"}
  /\ \A n \in EventNames : l = Len(listeners[n]) + 1
  /\ listeners' = [n \in EventNames |-> Append(listeners[n], l)]
  /\ UNCHANGED <<options, node, name, sockets, connected, call, ret, emitted, nAttach,
                 nDetach, highest, overwritten, pc, cur, queue, seen>>

StepNext ==
  \/ \E s \in Sockets, i \in IndexArgs :
       nAttach < StepMaxAttach /\ AttachStore(s, i)
  \/ AttachSocket
  \/ \E s \in Sockets : DetachClear(s)
  \/ Emit
  \/ Dispatch
  \/ Return
  \/ \E l \in Listeners : Subscribe(l)

StepSpec == Init /\ [][StepNext]_vars

\* --------------------------------------------------------- the constructor
\* new BasePort(options) has been called with some options and has not run yet
ConstructInit ==
  /\ options \in OptionInputs
  /\ node = None
  /\ name = None
  /\ sockets = <<>>
  /\ connected = {}
  /\ call = [op |-> "new", socket |-> Undefined, index |-> Null]
  /\ ret = Running
  /\ emitted = <<>>
  /\ nAttach = 0
  /\ nDetach = 0
  /\ highest = -1
  /\ overwritten = {}
  /\ pc = "new"
  /\ cur = [socket |-> Undefined, index |-> Null, registered |-> <<>>]
  /\ listeners = [e \in EventNames |-> <<>>]
  /\ queue = <<>>
  /\ seen = <<>>

\* constructor(options)
Construct ==
  /\ pc = "new"
  /\ LET handled == HandleOptions(options) IN
       IF handled.kind = "throw"
       THEN /\ ret' = handled
            /\ pc' = "failed"
            /\ UNCHANGED <<options, sockets, node, name>>
       ELSE /\ options' = handled.value
            /\ sockets' = NewSockets
            /\ node' = NullRef
            /\ name' = NullRef
            /\ ret' = ReturnedVoid
            /\ pc' = "idle"
  /\ call' = [op |-> "constructor", socket |-> Undefined, index |-> Null,
              options |-> options]
  /\ UNCHANGED <<connected, emitted, nAttach, nDetach, highest, overwritten,
                 cur, listeners, queue, seen>>

\* the owning graph sets port.node
SetNode(n) ==
  /\ pc = "idle"
  /\ node' = Some(n)
  /\ UNCHANGED <<options, name, sockets, connected, call, ret, emitted,
                 nAttach, nDetach, highest, overwritten, stepVars>>

\* the owning graph sets port.name
SetName(m) ==
  /\ pc = "idle"
  /\ name' = Some(m)
  /\ UNCHANGED <<options, node, sockets, connected, call, ret, emitted,
                 nAttach, nDetach, highest, overwritten, stepVars>>

ConstructNext ==
  \/ Construct
  \/ \E n \in NodeNames : SetNode(n)
  \/ \E m \in PortNames : SetName(m)
  \/ GetIdCall

ConstructSpec == ConstructInit /\ [][ConstructNext]_vars

\* ================================================================== claims
\* the indices whose slot holds socket s
HeldAt(socks, s) == {i \in 0..(Len(socks) - 1) : socks[i + 1] = s}

\* the members of a sequence
RangeOf(seq) == {seq[k] : k \in 1..Len(seq)}

Lowest(S) == CHOOSE i \in S : \A j \in S : i <= j

\* no isConnected() outcome depends on what socket s reports
NotConsidered(socks, s) ==
  \A i \in IndexArgs \cup (0..Len(socks)), conn \in SUBSET Sockets :
    IsConnected(socks, i, conn \cup {s}) = IsConnected(socks, i, conn \ {s})

\* no index that listAttached() returns holds s
NotListed(socks, s) ==
  \A i \in RangeOf(ListAttached(socks)) : At(socks, i) # s

\* C1 as stated: after detach(s) returns, no index of listAttached() holds s,
\* isConnected no longer takes s into account, and the length is unchanged.
C1_Original ==
  [][\A s \in Sockets : Detach(s) =>
       /\ NotListed(sockets', s)
       /\ NotConsidered(sockets', s)
       /\ Length(sockets') = Length(sockets)]_vars

\* C1 amended: detach(s) keeps the length and empties the lowest index that
\* held s, which listAttached() no longer returns; s leaves exactly one slot,
\* and when it was held in at most one slot no index of listAttached() holds
\* it and no isConnected() outcome depends on it any more.
C1_DetachRequery ==
  [][\A s \in Sockets : Detach(s) =>
       /\ Length(sockets') = Length(sockets)
       /\ HeldAt(sockets, s) # {} =>
            /\ HeldAt(sockets', s) = HeldAt(sockets, s) \ {Lowest(HeldAt(sockets, s))}
            /\ Lowest(HeldAt(sockets, s)) \notin RangeOf(ListAttached(sockets'))
            /\ ~IsAttached(sockets', Lowest(HeldAt(sockets, s))) \/ ~IsAddressable
       /\ Cardinality(HeldAt(sockets, s)) <= 1 =>
            /\ NotListed(sockets', s)
            /\ NotConsidered(sockets', s)]_vars

\* a socket was detached from a port that still holds another one, whose
\* report decides isConnected()
C1_Witness ==
  /\ call.op = "detach"
  /\ emitted # <<>>
  /\ HeldAt(sockets, call.socket) = {}
  /\ ListAttached(sockets) # <<>>
  /\ \E s \in Sockets \ {call.socket} : ~NotConsidered(sockets, s)

\* C2: on a non-addressable port every attach stores its socket at the index
\* equal to the length just before the call, whatever index is passed: the
\* k-th attach stores at k-1, writes no other slot, and as long as nothing
\* was detached the occupied indices are exactly 0..N-1.
C2_AppendLaw ==
  [][~IsAddressable =>
       \A s \in Sockets, i \in IndexArgs : Attach(s, i) =>
         /\ At(sockets', Length(sockets)) = s
         /\ Length(sockets) = nAttach
         /\ Length(sockets') = Length(sockets) + 1
         /\ \A k \in 1..Len(sockets) : sockets'[k] = sockets[k]
         /\ nDetach = 0 =>
              ListAttached(sockets') = [k \in 1..nAttach' |-> k - 1]]_vars

\* an attach with an explicit index that is not the one written, after a
\* detach, on a non-addressable port
C2_Witness ==
  /\ ~IsAddressable
  /\ call.op = "attach"
  /\ call.index \notin {Null, Length(sockets) - 1}
  /\ nDetach >= 1
  /\ nAttach >= 2
  /\ At(sockets, Length(sockets) - 1) = call.socket

\* C3: the length is 0 before the first attach and afterwards 1 plus the
\* highest index an attach has stored at; no detach decreases it.
C3_LengthIsHighest ==
  /\ [](/\ nAttach = 0 => Length(sockets) = 0
        /\ nAttach > 0 => Length(sockets) = highest + 1)
  /\ [][\A s \in Sockets : Detach(s) =>
          Length(sockets') >= Length(sockets)]_vars

\* every socket was detached again and the length still is highest + 1
C3_Witness ==
  /\ call.op = "detach"
  /\ emitted # <<>>
  /\ ListAttached(sockets) = <<>>
  /\ highest >= 1
  /\ Length(sockets) = highest + 1

\* C4: detach(s) of a socket no slot holds returns normally, changes no slot
\* and not the length, and emits nothing.
C4_DetachUnknown ==
  [][\A s \in Sockets : Detach(s) /\ HeldAt(sockets, s) = {} =>
       /\ ret' = ReturnedVoid
       /\ sockets' = sockets
       /\ emitted' = <<>>]_vars

\* a detach of a socket that is not held, on a port that holds another one
\* and has a cleared slot
C4_Witness ==
  /\ call.op = "detach"
  /\ emitted = <<>>
  /\ ret = ReturnedVoid
  /\ HeldAt(sockets, call.socket) = {}
  /\ ListAttached(sockets) # <<>>
  /\ \E k \in 1..Len(sockets) : sockets[k] = Undefined

\* C5: isAttached() on a non-addressable port, or without an id, returns true
\* iff the length is non-zero; once it is true it stays true.
C5_AttachedByLength ==
  /\ [](call.op = "isAttached" /\ (~IsAddressable \/ call.index = Null) =>
          ret = Returned(Len(sockets) # 0))
  /\ [][\A i \in IndexArgs : (~IsAddressable \/ i = Null) =>
          (IsAttached(sockets, i) => IsAttached(sockets', i))]_vars

\* isAttached() answers true although every socket was detached again
C5_Witness ==
  /\ call.op = "isAttached"
  /\ ~IsAddressable \/ call.index = Null
  /\ ret = Returned(TRUE)
  /\ nDetach >= 1
  /\ \A k \in 1..Len(sockets) : sockets[k] \notin Sockets

\* C6: every attach emits exactly one attach event and every detach that finds
\* its socket exactly one detach event; on an addressable port it carries the
\* socket and the index written or cleared, otherwise the socket alone.
C6_OneNotification ==
  [][/\ \A s \in Sockets, i \in IndexArgs : Attach(s, i) =>
          /\ Len(emitted') = 1
          /\ emitted'[1].name = "attach"
          /\ IF IsAddressable
             THEN /\ Len(emitted'[1].args) = 2
                  /\ emitted'[1].args[1] = s
                  /\ At(sockets', emitted'[1].args[2]) = s
                  /\ \A j \in (0..(Len(sockets') - 1)) \ {emitted'[1].args[2]} :
                       At(sockets', j) = At(sockets, j)
             ELSE emitted'[1].args = <<s>>
     /\ \A s \in Sockets : Detach(s) /\ HeldAt(sockets, s) # {} =>
          /\ Len(emitted') = 1
          /\ emitted'[1].name = "detach"
          /\ IF IsAddressable
             THEN /\ Len(emitted'[1].args) = 2
                  /\ emitted'[1].args[1] = s
                  /\ At(sockets, emitted'[1].args[2]) = s
                  /\ At(sockets', emitted'[1].args[2]) = Undefined
                  /\ \A j \in (0..(Len(sockets') - 1)) \ {emitted'[1].args[2]} :
                       At(sockets', j) = At(sockets, j)
             ELSE emitted'[1].args = <<s>>]_vars

\* a detach on an addressable port reported an index other than 0
C6_Witness ==
  /\ IsAddressable
  /\ call.op = "detach"
  /\ Len(emitted) = 1
  /\ emitted[1].name = "detach"
  /\ emitted[1].args[1] = call.socket
  /\ emitted[1].args[2] >= 1
  /\ At(sockets, emitted[1].args[2]) = Undefined

\* the listeners of a sequence of observations, in order
ListenersOf(obs) == [k \in 1..Len(obs) |-> obs[k].listener]

\* the slot the running call works on is written (attach) or empty (detach)
SlotDone ==
  IF call.op = "attach" THEN At(sockets, cur.index) = cur.socket
  ELSE At(sockets, cur.index) = Undefined

\* C7: attach stores the socket, then runs the hook, then emits to the
\* listeners registered at that moment in registration order, then returns;
\* detach clears the slot before it emits. A listener sees the slot written
\* (attach) or empty (detach).
C7_StepOrder ==
  /\ pc = "attachSocket" =>
       call.op = "attach" /\ SlotDone /\ emitted = <<>> /\ seen = <<>>
  /\ pc = "emit" => SlotDone /\ emitted = <<>> /\ seen = <<>>
  /\ pc = "dispatch" =>
       /\ SlotDone
       /\ Len(emitted) = 1 /\ emitted[1].name = call.op
       /\ ListenersOf(seen) \o queue = cur.registered
       /\ ret = Running
  /\ pc = "idle" /\ ret = ReturnedVoid /\ emitted # <<>> =>
       ListenersOf(seen) = cur.registered
  /\ \A k \in 1..Len(seen) :
       /\ seen[k].args = emitted[1].args
       /\ IF call.op = "attach"
          THEN /\ seen[k].slot = cur.socket
               /\ cur.index \in RangeOf(seen[k].list)
          ELSE /\ seen[k].slot = Undefined
               /\ cur.index \notin RangeOf(seen[k].list)

\* an attach returned after two listeners saw the socket in its slot, while a
\* listener that subscribed during the dispatch was not invoked
C7_Witness ==
  /\ pc = "idle"
  /\ call.op = "attach"
  /\ Len(seen) = 2
  /\ seen[1].slot = call.socket /\ seen[2].slot = call.socket
  /\ ListenersOf(seen) = cur.registered
  /\ Len(listeners["attach"]) > Len(cur.registered)

\* slot i of the array holds no socket: never assigned, or cleared by detach
EmptySlot(socks, i) ==
  \/ i >= Len(socks)
  \/ socks[i + 1] = Hole
  \/ socks[i + 1] = Undefined

\* C8: on an addressable port isConnected() fails with "Socket ID required"
\* without an id, with "Socket not available" for an id whose slot is empty,
\* and otherwise returns what the socket in the slot reports; the call
\* changes no slot and emits nothing.
C8_AddressableIsConnected ==
  [][IsAddressable =>
       \A i \in IndexArgs : IsConnectedCall(i) =>
         /\ IF i = Null THEN ret' = Thrown("Socket ID required")
            ELSE IF EmptySlot(sockets, i)
                 THEN ret' = Thrown("Socket not available")
            ELSE ret' = Returned(sockets[i + 1] \in connected)
         /\ sockets' = sockets
         /\ emitted' = <<>>]_vars

\* isConnected(i) failed for a slot that a detach had cleared
C8_Witness ==
  /\ IsAddressable
  /\ call.op = "isConnected"
  /\ call.index # Null
  /\ call.index < Len(sockets)
  /\ sockets[call.index + 1] = Undefined
  /\ ret = Thrown("Socket not available")
  /\ ListAttached(sockets) # <<>>

\* C9: on a non-addressable port isConnected() returns true iff some occupied
\* slot holds a socket that reports connected, whatever socketId is passed,
\* and never throws.
C9_AnyConnected ==
  [][~IsAddressable =>
       \A i \in IndexArgs : IsConnectedCall(i) =>
         /\ ret'.kind = "return"
         /\ ret'.value = (\E j \in RangeOf(ListAttached(sockets)) :
                            At(sockets, j) \in connected)]_vars

\* isConnected(i) answered true for a connected socket in slot 0 while a later
\* slot holds a socket that is not connected
C9_Witness ==
  /\ ~IsAddressable
  /\ call.op = "isConnected"
  /\ call.index # Null
  /\ ret = Returned(TRUE)
  /\ Len(sockets) >= 2
  /\ At(sockets, 0) \in connected
  /\ \E k \in 2..Len(sockets) : sockets[k] \in Sockets \ connected

\* C10: on an addressable port attach(socket, i) with an explicit index stores
\* the socket at exactly i and returns normally, whoever held the slot, and
\* attach without an index stores at the current length.
C10_OverwriteLaw ==
  [][IsAddressable =>
       \A s \in Sockets, i \in IndexArgs : Attach(s, i) =>
         /\ ret' = ReturnedVoid
         /\ IF i # Null
            THEN /\ At(sockets', i) = s
                 /\ HeldAt(sockets', s) = HeldAt(sockets, s) \cup {i}
                 /\ Length(sockets') = Max(Length(sockets), i + 1)
            ELSE /\ At(sockets', Length(sockets)) = s
                 /\ Length(sockets') = Length(sockets) + 1]_vars

\* attach(s, 0) replaced the other socket that slot 0 held
C10_Witness ==
  /\ IsAddressable
  /\ call.op = "attach"
  /\ call.index = 0
  /\ nAttach >= 2
  /\ nDetach = 0
  /\ Len(sockets) = 1
  /\ sockets[1] = call.socket
  /\ emitted = <<[name |-> "attach", args |-> <<call.socket, 0>>]>>

\* the indices whose content, as read from the array, a step changes
ChangedSlots ==
  {j \in 0..(Max(Len(sockets), Len(sockets')) - 1) :
     At(sockets', j) # At(sockets, j)}

\* C11: an attach or a detach changes the content of at most one slot, the
\* one it writes or clears; a socket held at any other index stays there.
C11_IndexStability ==
  [][/\ \A s \in Sockets, i \in IndexArgs : Attach(s, i) =>
          /\ Cardinality(ChangedSlots) <= 1
          /\ \A j \in ChangedSlots : At(sockets', j) = s
          /\ \A r \in Sockets \ {s} : HeldAt(sockets', r) \subseteq HeldAt(sockets, r)
          /\ HeldAt(sockets, s) \subseteq HeldAt(sockets', s)
     /\ \A s \in Sockets : Detach(s) =>
          /\ Cardinality(ChangedSlots) <= 1
          /\ \A j \in ChangedSlots : At(sockets, j) = s /\ At(sockets', j) = Undefined
          /\ \A r \in Sockets \ {s} : HeldAt(sockets', r) = HeldAt(sockets, r)]_vars

\* a detach cleared slot 1 while slots 0 and 2 kept their sockets
C11_Witness ==
  /\ call.op = "detach"
  /\ emitted # <<>>
  /\ Len(sockets) = 3
  /\ sockets[1] \in Sockets
  /\ sockets[2] = Undefined
  /\ sockets[3] \in Sockets

\* a sequence of integers is strictly ascending
Ascending(seq) == \A k \in 1..(Len(seq) - 1) : seq[k] < seq[k + 1]

\* C12: listAttached() returns exactly the indices whose slot holds a socket,
\* each once and ascending; on an addressable port isAttached(i) is true iff
\* i is among them; both queries return normally and leave the port alone.
C12_ListAttachedExact ==
  /\ [](/\ Ascending(ListAttached(sockets))
        /\ RangeOf(ListAttached(sockets)) =
             {i \in 0..(Len(sockets) - 1) : sockets[i + 1] \in Sockets}
        /\ IsAddressable =>
             \A i \in 0..(Len(sockets) + 1) :
               IsAttached(sockets, i) <=> i \in RangeOf(ListAttached(sockets)))
  /\ [][/\ ListAttachedCall =>
             /\ ret' = Returned(ListAttached(sockets))
             /\ sockets' = sockets /\ emitted' = <<>>
        /\ \A i \in IndexArgs : IsAttachedCall(i) =>
             /\ ret'.kind = "return"
             /\ sockets' = sockets /\ emitted' = <<>>]_vars

\* listAttached() returned <<0, 2>> on an addressable port whose slot 1 was
\* never assigned
C12_Witness ==
  /\ IsAddressable
  /\ call.op = "listAttached"
  /\ ret = Returned(<<0, 2>>)
  /\ Len(sockets) = 3
  /\ sockets[2] = Hole

\* the 13 valid datatypes
ValidTypeSet == RangeOf(validTypes)

\* a string contains the character '/'
HasSlash(s) == \E k \in 1..Len(s) : s[k] = "/"

\* the datatype with an absent datatype defaulted and 'integer' mapped
DatatypeOf(o) ==
  IF o.datatype = None THEN "all"
  ELSE IF o.datatype.value = "integer" THEN "int"
  ELSE o.datatype.value

\* the same with the empty string defaulted as well
DatatypeOrDefault(o) == IF o.datatype = Some("") THEN "all" ELSE DatatypeOf(o)

\* the schema option when it is a non-empty string, the type option otherwise
EffectiveSchema(o) ==
  IF o.schema.is = "value" /\ Len(o.schema.value) > 0 THEN o.schema ELSE o.type

\* the effective schema is a non-empty string
SchemaGiven(o) ==
  EffectiveSchema(o).is = "value" /\ Len(EffectiveSchema(o).value) > 0

InvalidDatatype == Thrown("Invalid port datatype")
InvalidSchema   == Thrown("Invalid port schema")

\* C13 as stated: every schema string without '/' makes construction fail with
\* InvalidSchema, every schema string with '/' makes it succeed with
\* getSchema() returning the string; without a schema the type option is
\* treated the same way, and getSchema() is null when neither is given.
C13_Original ==
  [][Construct =>
       LET s == options.schema
           y == options.type
       IN  /\ s.is = "value" /\ ~HasSlash(s.value) => ret' = InvalidSchema
           /\ s.is = "value" /\ HasSlash(s.value) =>
                 pc' = "idle" /\ GetSchema' = s
           /\ s = None /\ y.is = "value" /\ ~HasSlash(y.value) =>
                 ret' = InvalidSchema
           /\ s = None /\ y.is = "value" /\ HasSlash(y.value) =>
                 pc' = "idle" /\ GetSchema' = y
           /\ s = None /\ y = None /\ pc' = "idle" => GetSchema' = NullRef]_vars

\* C13 amended: the effective schema is the schema option when that is a
\* non-empty string and the type option otherwise.  With a valid datatype,
\* construction fails with InvalidSchema when the effective schema is a
\* non-empty string without '/', succeeds with getSchema() returning it when it
\* contains '/', and succeeds with getSchema() null when it is absent or
\* empty; with an invalid datatype construction fails with InvalidDatatype
\* whatever the schema.
C13_SchemaLaw ==
  [][Construct =>
       LET e == EffectiveSchema(options)
           valid == DatatypeOrDefault(options) \in ValidTypeSet
       IN  /\ ~valid => ret' = InvalidDatatype /\ pc' = "failed"
           /\ valid /\ SchemaGiven(options) /\ ~HasSlash(e.value) =>
                 ret' = InvalidSchema /\ pc' = "failed"
           /\ valid /\ SchemaGiven(options) /\ HasSlash(e.value) =>
                 pc' = "idle" /\ GetSchema' = e
           /\ valid /\ ~SchemaGiven(options) =>
                 pc' = "idle" /\ GetSchema' = NullRef]_vars

\* a port was constructed with an empty schema and a type holding '/', and
\* getSchema() reports the type
C13_Witness ==
  /\ pc = "idle"
  /\ call.op = "constructor"
  /\ call.options.schema = Some(<<>>)
  /\ call.options.type.is = "value"
  /\ HasSlash(call.options.type.value)
  /\ GetSchema = call.options.type

\* C14 as stated: construction succeeds iff the datatype, with an absent one
\* defaulted to 'all' and 'integer' mapped to 'int', is one of the 13 valid
\* values, and fails with InvalidDatatype otherwise; getDataType() then
\* returns that value, a member of the set.
C14_Original ==
  [][Construct =>
       LET d == DatatypeOf(options) IN
         /\ pc' = "idle" <=> d \in ValidTypeSet
         /\ d \notin ValidTypeSet => ret' = InvalidDatatype
         /\ pc' = "idle" =>
              GetDataType' = Some(d) /\ d \in ValidTypeSet]_vars

\* C14 amended: construction fails with InvalidDatatype iff the datatype, with
\* an absent or empty one defaulted to 'all' and 'integer' mapped to 'int', is
\* not one of the 13 valid values; with a valid datatype it succeeds unless the
\* effective schema is a non-empty string without '/', when it fails with
\* InvalidSchema; after a success getDataType() returns the normalized
\* value, a member of the set.
C14_DatatypeLaw ==
  [][Construct =>
       LET d == DatatypeOrDefault(options)
           rejected == SchemaGiven(options)
                         /\ ~HasSlash(EffectiveSchema(options).value)
       IN  /\ ret' = InvalidDatatype <=> d \notin ValidTypeSet
           /\ d \in ValidTypeSet /\ ~rejected => pc' = "idle"
           /\ d \in ValidTypeSet /\ rejected =>
                 ret' = InvalidSchema /\ pc' = "failed"
           /\ pc' = "idle" =>
                 /\ GetDataType' = Some(d)
                 /\ GetDataType'.value \in ValidTypeSet
                 /\ Cardinality(ValidTypeSet) = 13]_vars

\* a port was constructed with datatype 'integer' and reports 'int'
C14_Witness ==
  /\ pc = "idle"
  /\ call.op = "constructor"
  /\ call.options.datatype = Some("integer")
  /\ GetDataType = Some("int")

\* what the claim says of a fresh port
FreshPort ==
  /\ Length(sockets) = 0
  /\ \A i \in IndexArgs : ~IsAttached(sockets, i)
  /\ ListAttached(sockets) = <<>>
  /\ ~IsAddressable =>
       \A conn \in SUBSET Sockets, i \in IndexArgs :
         IsConnected(sockets, i, conn) = Returned(FALSE)
  /\ node = NullRef
  /\ name = NullRef
  /\ GetId(node, name) = <<"Port">>

\* C15: when the constructor returns, the port has no slot, isAttached() is
\* false, listAttached() is empty, isConnected() is false on a non-addressable
\* port, node and name are null and getId() is "Port".
C15_FreshPort ==
  [][Construct /\ pc' = "idle" => FreshPort']_vars

\* a non-addressable port has just been constructed
C15_Witness ==
  /\ pc = "idle"
  /\ call.op = "constructor"
  /\ ~IsAddressable
  /\ FreshPort

\* a step is one of the queries returning
QueryStep ==
  \/ \E i \in IndexArgs : IsAttachedCall(i)
  \/ ListAttachedCall
  \/ \E i \in IndexArgs : IsConnectedCall(i)
  \/ GetIdCall
  \/ CanAttachCall

\* C16: no attach, detach or query changes what getDataType(), getSchema(),
\* isAddressable(), isBuffered() and isRequired() report, and the queries
\* isAttached, listAttached, isConnected, getId and canAttach change no slot
\* and emit nothing.
C16_ConfigurationFixed ==
  [][/\ GetDataType' = GetDataType
     /\ GetSchema' = GetSchema
     /\ IsAddressable' = IsAddressable
     /\ IsBuffered' = IsBuffered
     /\ IsRequired' = IsRequired
     /\ QueryStep => sockets' = sockets /\ emitted' = <<>>]_vars

\* getId() was called on an 'int' port with a schema, after a detach left an
\* empty slot and with a socket still attached
C16_Witness ==
  /\ call.op = "getId"
  /\ ret = Returned(<<"Port">>)
  /\ GetDataType = Some("int")
  /\ GetSchema = Some(<<"a", "/">>)
  /\ nDetach > 0
  /\ ListAttached(sockets) # <<>>
  /\ ~Truthy(At(sockets, Length(sockets) - 1))

DetachEventsFor(events, a) ==
  {k \in 1..Len(events) :
     events[k].name = "detach" /\ events[k].args[1] = a}

\* C18: on an addressable port, attach(b, i) over a socket a held only at i
\* emits no detach notification; from then on no slot holds a, no detach
\* notification names a, and detach(a) changes no slot and emits nothing,
\* leaving b where it is.
C18_OverwriteSilent ==
  /\ [](IsAddressable =>
          \A a \in overwritten :
            HeldAt(sockets, a) = {} /\ DetachEventsFor(emitted, a) = {})
  /\ [][/\ \A b \in Sockets, i \in 0..MaxIndex :
            Attach(b, i) /\ IsAddressable =>
              /\ \A k \in 1..Len(emitted') : emitted'[k].name # "detach"
              /\ \A a \in Sockets \ {b} :
                   HeldAt(sockets, a) = {i} =>
                     a \in overwritten' /\ At(sockets', i) = b
        /\ \A a \in Sockets :
            Detach(a) /\ IsAddressable /\ a \in overwritten =>
              sockets' = sockets /\ emitted' = <<>>]_vars

\* detach(a) was called for an overwritten socket: nothing was emitted and
\* the socket that replaced it is still attached
C18_Witness ==
  /\ IsAddressable
  /\ call.op = "detach"
  /\ call.socket \in overwritten
  /\ emitted = <<>>
  /\ \E i \in RangeOf(ListAttached(sockets)) :
       At(sockets, i) \in Sockets \ {call.socket}

\* C19: on a non-addressable port the number of occupied slots is the number
\* of attach calls minus the number of detach calls that found their socket,
\* and the length is the number of attach calls.
C19_Counts ==
  ~IsAddressable =>
    /\ Len(ListAttached(sockets)) = nAttach - nDetach
    /\ Length(sockets) = nAttach

\* three attaches and a detach on a non-addressable port
C19_Witness ==
  /\ ~IsAddressable
  /\ nAttach = 3
  /\ nDetach >= 1
  /\ Len(ListAttached(sockets)) = nAttach - nDetach
  /\ call.op = "detach"

====
